---- MODULE Spec2Model ----
(***************************************************************************)
(* The request pipelines of the portfolio backend: POST /api/contact and   *)
(* POST /api/subscribe, as served by the three server files of the         *)
(* repository:                                                             *)
(*   "resend"      src/unnamed/part_000          (MongoDB + Resend)        *)
(*   "nodemailer"  src/server.js lines 1-187     (MongoDB + nodemailer)    *)
(*   "legacy"      src/server.js lines 188-354   (nodemailer only)         *)
(* Node runs each handler up to its next await in one step; the steps of   *)
(* the model are those stretches.  The store (mongoose) and the mailer are *)
(* the environment: each pending call settles in a step of its own, with   *)
(* an outcome chosen by the environment.                                   *)
(* Texts are written without accents.  The rate limiter, the body parser   *)
(* and the router run before the handlers and are not modelled.            *)
(***************************************************************************)
EXTENDS Integers, Sequences, FiniteSets, Bags, TLC

VARIABLES variant, kind, body, pc, send, resp, calls, storeErr, presentAtStart,
          contacts, subscribers

vars == <<variant, kind, body, pc, send, resp, calls, storeErr, presentAtStart,
          contacts, subscribers>>

\* Number of requests the server receives.
MaxReq == 2

Requests == 1..MaxReq

Variants == {"resend", "nodemailer", "legacy"}

\* The server files that define the Contact and Subscriber models.
Persisting == {"resend", "nodemailer"}

----------------------------------------------------------------------------
(* Request bodies.  A body is a JSON object: a function from the field     *)
(* names it carries to texts; a text is a sequence of characters.  The     *)
(* fields are strings: other JSON values are not modelled.                 *)

Text == <<"H", "i">>

ValidEmails == { <<"a", "@", "b", ".", "c">>, <<"b", "@", "b", ".", "c">> }

MalformedEmails ==
    { <<"a", "b", ".", "c">>,             \* no @
      <<"a", "@", "b", "c">>,             \* no dot after the @
      <<"a", " ", "@", "b", ".", "c">>,   \* white space
      <<"a", "@", "@", "b", ".", "c">>,   \* two @
      <<"@", "b", ".", "c">>,             \* empty local part
      <<"a", "@", "b", ".">>,             \* nothing after the dot
      <<"a", "@", ".", "c">> }            \* nothing between @ and the dot

EmailInputs == ValidEmails \cup MalformedEmails \cup { <<>> }

ContactFields == {"name", "email", "subject", "message"}

Without(b, f) == [g \in (DOMAIN b) \ {f} |-> b[g]]

FullContactBody ==
    [name |-> Text, email |-> <<"a", "@", "b", ".", "c">>, subject |-> Text, message |-> Text]

\* The contact bodies sent to server v: every field given, one field absent,
\* one field empty.  Only the legacy handler looks inside the email, the
\* others test that it is not empty: a malformed address is an input of the
\* legacy server alone.
ContactBodies(v) ==
    {FullContactBody}
      \cup { Without(FullContactBody, f) : f \in ContactFields }
      \cup { [FullContactBody EXCEPT ![f] = <<>>] : f \in ContactFields }
      \cup (IF v = "legacy"
              THEN { [FullContactBody EXCEPT !["email"] = <<"a", "b", ".", "c">>] }
              ELSE {})

SubscribeBodies ==
    { [email |-> e] : e \in EmailInputs } \cup { Without([email |-> <<>>], "email") }

\* `!x` of a destructured field: true when the field is absent or "".
Falsy(b, f) == f \notin DOMAIN b \/ b[f] = <<>>

----------------------------------------------------------------------------
(* Validation.                                                             *)

ContactFieldsMissing_NoMessage(b) ==
    Falsy(b, "name") \/ Falsy(b, "email") \/ Falsy(b, "subject")

\* if (!name || !email || !subject || !message)
ContactFieldsMissing(b) ==
    Falsy(b, "name") \/ Falsy(b, "email") \/ Falsy(b, "subject") \/ Falsy(b, "message")

\* A character matched by [^\s@].
Plain(c) == c \notin {" ", "@"}

AllPlain(s, from, to) == \A k \in from..to : Plain(s[k])

EmailRegexTest_NoDot(s) ==
    \E i \in 2..(Len(s) - 1) :
        s[i] = "@" /\ AllPlain(s, 1, i - 1) /\ AllPlain(s, i + 1, Len(s))

\* /^[^\s@]+@[^\s@]+\.[^\s@]+$/.test(s): some split of s into a non-empty
\* plain run, "@", a non-empty plain run, ".", a non-empty plain run.
EmailRegexTest(s) ==
    \E i \in 2..(Len(s) - 3) : \E j \in (i + 2)..(Len(s) - 1) :
        /\ s[i] = "@"
        /\ s[j] = "."
        /\ AllPlain(s, 1, i - 1)
        /\ AllPlain(s, i + 1, j - 1)
        /\ AllPlain(s, j + 1, Len(s))

\* if (!email || !emailRegex.test(email))
SubscribeEmailInvalid(b) == Falsy(b, "email") \/ ~EmailRegexTest(b["email"])

----------------------------------------------------------------------------
(* Responses: res.status(s).json({ success, message }).                    *)

Response(s, ok, m) == [status |-> s, success |-> ok, message |-> m]

ContactMissing400 == Response(400, FALSE, "Todos los campos son requeridos")

ContactEmail400 == Response(400, FALSE, "Email invalido")

ContactSuccess(v) ==
    Response(200, TRUE,
             CASE v = "resend" -> "Mensaje recibido! Te contactare pronto."
               [] v = "nodemailer" -> "Mensaje enviado y guardado correctamente"
               [] OTHER -> "Mensaje enviado correctamente")

ContactCatch_Silent(v) == << >>

\* The catch block of the contact handler: the responses it sends.
ContactCatch(v) ==
    << Response(500, FALSE,
                CASE v = "resend" -> "Error interno del servidor."
                  [] v = "nodemailer" -> "Error interno al procesar tu mensaje."
                  [] OTHER -> "Error al enviar el mensaje. Por favor intenta nuevamente.") >>

SubscribeInvalid400 == Response(400, FALSE, "Email invalido")

SubscribeDuplicate400 == Response(400, FALSE, "Este email ya esta suscrito.")

SubscribeSuccess == Response(200, TRUE, "Gracias por suscribirte!")

\* The catch block of the subscribe handler.
SubscribeCatch == << Response(500, FALSE, "Error interno.") >>

----------------------------------------------------------------------------
(* The mailer and the store.                                               *)

\* How a pending send settles.  transporter.sendMail fulfils ("ack") or
\* rejects.  resend.emails.send fulfils with a value the handler never
\* reads: that value either acknowledges the message ("ack") or carries the
\* provider's error ("error"); the call may also reject.
SendOutcomes(v) ==
    IF v = "resend" THEN {"ack", "error", "rejected"} ELSE {"ack", "rejected"}

\* The send's promise fulfilled.
Fulfilled(s) == s \in {"ack", "error"}

\* The message was not sent.
SendFailed(s) == s \in {"error", "rejected"}

PromiseAll_Any(s) ==
    IF Fulfilled(s[1]) \/ Fulfilled(s[2]) THEN "fulfilled"
    ELSE IF s[1] = "rejected" /\ s[2] = "rejected" THEN "rejected"
    ELSE "pending"

\* Promise.all([s1, s2]): rejected once either promise rejects, fulfilled
\* once both have fulfilled.
PromiseAll(s) ==
    IF s[1] = "rejected" \/ s[2] = "rejected" THEN "rejected"
    ELSE IF Fulfilled(s[1]) /\ Fulfilled(s[2]) THEN "fulfilled"
    ELSE "pending"

SendsAfterSave_Always(outcome) == <<"flight", "flight">>

\* await newContact.save() before the sends are built: a failed save throws
\* past them.
SendsAfterSave(outcome) ==
    IF outcome = "ok" THEN <<"flight", "flight">> ELSE <<"unissued", "unissued">>

ExistingSubscriber_Never(subs, e) == FALSE

\* Subscriber.findOne({ email }): whether a document is returned.
ExistingSubscriber(subs, e) == CopiesIn(e, subs) > 0

UniqueViolation_None(subs, e) == FALSE

\* email: { unique: true }: the index rejects a second document with the email.
UniqueViolation(subs, e) == CopiesIn(e, subs) > 0

ContactDoc(r) == [id |-> r, doc |-> body[r]]

----------------------------------------------------------------------------
NoBody == Without([email |-> <<>>], "email")

Init ==
    /\ variant \in Variants
    /\ kind = [r \in Requests |-> "none"]
    /\ body = [r \in Requests |-> NoBody]
    /\ pc = [r \in Requests |-> "idle"]
    /\ send = [r \in Requests |-> <<"unissued", "unissued">>]
    /\ resp = [r \in Requests |-> << >>]
    /\ calls = [r \in Requests |-> {}]
    /\ storeErr = [r \in Requests |-> "none"]
    /\ presentAtStart = [r \in Requests |-> FALSE]
    /\ contacts = EmptyBag
    /\ subscribers = EmptyBag

\* The handler of request r sends the responses rs and returns.
Finish(r, rs) ==
    /\ resp' = [resp EXCEPT ![r] = resp[r] \o rs]
    /\ pc' = [pc EXCEPT ![r] = "done"]

\* POST /api/contact arrives: the handler runs to its first await.
ContactStart(r, b) ==
    /\ pc[r] = "idle"
    /\ b \in ContactBodies(variant)
    /\ kind' = [kind EXCEPT ![r] = "contact"]
    /\ body' = [body EXCEPT ![r] = b]
    /\ IF ContactFieldsMissing(b)
         THEN /\ Finish(r, << ContactMissing400 >>)
              /\ UNCHANGED <<send, calls>>
       ELSE IF variant = "legacy"
         THEN IF ~EmailRegexTest(b["email"])
                THEN /\ Finish(r, << ContactEmail400 >>)
                     /\ UNCHANGED <<send, calls>>
                ELSE /\ pc' = [pc EXCEPT ![r] = "sendMailAdmin"]
                     /\ send' = [send EXCEPT ![r] = <<"flight", "unissued">>]
                     /\ UNCHANGED <<resp, calls>>
       ELSE /\ pc' = [pc EXCEPT ![r] = "contactSave"]
            /\ calls' = [calls EXCEPT ![r] = @ \cup {"Contact.save"}]
            /\ UNCHANGED <<resp, send>>
    /\ UNCHANGED <<variant, storeErr, presentAtStart, contacts, subscribers>>

\* newContact.save() settles.
ContactSaveSettle(r, outcome) ==
    /\ pc[r] = "contactSave"
    /\ send' = [send EXCEPT ![r] = SendsAfterSave(outcome)]
    /\ IF outcome = "ok"
         THEN /\ contacts' = contacts (+) SetToBag({ContactDoc(r)})
              /\ pc' = [pc EXCEPT ![r] = "promiseAll"]
              /\ UNCHANGED <<resp, storeErr>>
         ELSE /\ storeErr' = [storeErr EXCEPT ![r] = "fault"]
              /\ Finish(r, ContactCatch(variant))
              /\ UNCHANGED contacts
    /\ UNCHANGED <<variant, kind, body, calls, presentAtStart, subscribers>>

\* One of the two sends under Promise.all settles.
PromiseAllSettle(r, i, outcome) ==
    /\ variant \in Persisting
    /\ send[r][i] = "flight"
    /\ outcome \in SendOutcomes(variant)
    /\ send' = [send EXCEPT ![r][i] = outcome]
    /\ IF pc[r] = "promiseAll" /\ PromiseAll(send'[r]) = "rejected"
         THEN Finish(r, ContactCatch(variant))
       ELSE IF pc[r] = "promiseAll" /\ PromiseAll(send'[r]) = "fulfilled"
         THEN Finish(r, << ContactSuccess(variant) >>)
       ELSE UNCHANGED <<pc, resp>>
    /\ UNCHANGED <<variant, kind, body, calls, storeErr, presentAtStart,
                   contacts, subscribers>>

\* The legacy handler: await sendMail(mailOptions), then
\* await sendMail(confirmationMail).
LegacySendSettle(r, i, outcome) ==
    /\ variant = "legacy"
    /\ send[r][i] = "flight"
    /\ outcome \in SendOutcomes(variant)
    /\ IF outcome = "rejected"
         THEN /\ send' = [send EXCEPT ![r][i] = outcome]
              /\ Finish(r, ContactCatch(variant))
       ELSE IF i = 1
         THEN /\ send' = [send EXCEPT ![r] = <<outcome, "flight">>]
              /\ pc' = [pc EXCEPT ![r] = "sendMailUser"]
              /\ UNCHANGED resp
       ELSE /\ send' = [send EXCEPT ![r][i] = outcome]
            /\ Finish(r, << ContactSuccess(variant) >>)
    /\ UNCHANGED <<variant, kind, body, calls, storeErr, presentAtStart,
                   contacts, subscribers>>

\* POST /api/subscribe arrives (the legacy server has no such route).
SubscribeStart(r, b) ==
    /\ variant \in Persisting
    /\ pc[r] = "idle"
    /\ kind' = [kind EXCEPT ![r] = "subscribe"]
    /\ body' = [body EXCEPT ![r] = b]
    /\ presentAtStart' = [presentAtStart EXCEPT ![r] =
                            "email" \in DOMAIN b /\ CopiesIn(b["email"], subscribers) > 0]
    /\ IF SubscribeEmailInvalid(b)
         THEN /\ Finish(r, << SubscribeInvalid400 >>)
              /\ UNCHANGED calls
         ELSE /\ pc' = [pc EXCEPT ![r] = "findOne"]
              /\ calls' = [calls EXCEPT ![r] = @ \cup {"Subscriber.findOne"}]
              /\ UNCHANGED resp
    /\ UNCHANGED <<variant, send, storeErr, contacts, subscribers>>

\* Subscriber.findOne({ email }) settles.
FindOneSettle(r, outcome) ==
    /\ pc[r] = "findOne"
    /\ IF outcome = "fail"
         THEN /\ storeErr' = [storeErr EXCEPT ![r] = "fault"]
              /\ Finish(r, SubscribeCatch)
              /\ UNCHANGED calls
       ELSE IF ExistingSubscriber(subscribers, body[r]["email"])
         THEN /\ Finish(r, << SubscribeDuplicate400 >>)
              /\ UNCHANGED <<calls, storeErr>>
       ELSE /\ pc' = [pc EXCEPT ![r] = "subscriberSave"]
            /\ calls' = [calls EXCEPT ![r] = @ \cup {"Subscriber.save"}]
            /\ UNCHANGED <<resp, storeErr>>
    /\ UNCHANGED <<variant, kind, body, send, presentAtStart, contacts, subscribers>>

\* newSubscriber.save() settles.
SubscriberSaveSettle(r, outcome) ==
    /\ pc[r] = "subscriberSave"
    /\ IF outcome = "fail"
         THEN /\ storeErr' = [storeErr EXCEPT ![r] = "fault"]
              /\ Finish(r, SubscribeCatch)
              /\ UNCHANGED subscribers
       ELSE IF UniqueViolation(subscribers, body[r]["email"])
         THEN /\ storeErr' = [storeErr EXCEPT ![r] = "E11000"]
              /\ Finish(r, SubscribeCatch)
              /\ UNCHANGED subscribers
       ELSE /\ subscribers' = subscribers (+) SetToBag({body[r]["email"]})
            /\ Finish(r, << SubscribeSuccess >>)
            /\ UNCHANGED storeErr
    /\ UNCHANGED <<variant, kind, body, send, calls, presentAtStart, contacts>>

StoreOutcomes == {"ok", "fail"}

Next ==
    \/ \E r \in Requests, b \in ContactBodies("legacy") : ContactStart(r, b)
    \/ \E r \in Requests, o \in StoreOutcomes : ContactSaveSettle(r, o)
    \/ \E r \in Requests, i \in 1..2, o \in {"ack", "error", "rejected"} :
          PromiseAllSettle(r, i, o)
    \/ \E r \in Requests, i \in 1..2, o \in {"ack", "rejected"} :
          LegacySendSettle(r, i, o)
    \/ \E r \in Requests, b \in SubscribeBodies : SubscribeStart(r, b)
    \/ \E r \in Requests, o \in StoreOutcomes : FindOneSettle(r, o)
    \/ \E r \in Requests, o \in StoreOutcomes : SubscriberSaveSettle(r, o)

Spec == Init /\ [][Next]_vars

\* A pending call of request r settles and the handler resumes.
Settle(r) ==
    \/ \E o \in StoreOutcomes : ContactSaveSettle(r, o)
    \/ \E i \in 1..2, o \in {"ack", "error", "rejected"} : PromiseAllSettle(r, i, o)
    \/ \E i \in 1..2, o \in {"ack", "rejected"} : LegacySendSettle(r, i, o)
    \/ \E o \in StoreOutcomes : FindOneSettle(r, o)
    \/ \E o \in StoreOutcomes : SubscriberSaveSettle(r, o)

\* The store and the mailer answer or time out: while calls are pending, one
\* of them settles.  The requests being finitely many, every pending call
\* then settles.
FairSpec == Spec /\ WF_vars(\E r \in Requests : Settle(r))

----------------------------------------------------------------------------
(* Properties.                                                             *)

Responded(r) == Len(resp[r]) > 0

Answer(r) == resp[r][1]

IsContact(r) == kind[r] = "contact"

IsSubscribe(r) == kind[r] = "subscribe"

\* The contact save of r was issued and succeeded.
ContactSaved(r) ==
    "Contact.save" \in calls[r] /\ pc[r] # "contactSave" /\ storeErr[r] = "none"

DocsOf(r) == { d \in BagToSet(contacts) : d.id = r }

\* Contact documents persisted by request r.
DocCount(r) == IF DocsOf(r) = {} THEN 0 ELSE CopiesIn(ContactDoc(r), contacts)

EmailOf(r) == body[r]["email"]

\* The started subscribe requests for email e.
SubmissionsOf(e) == { r \in Requests : IsSubscribe(r) /\ body[r] = [email |-> e] }

SuccessesOf(e) == { r \in SubmissionsOf(e) : Responded(r) /\ Answer(r).success }

\* C1: a subscribe request whose insert the unique index rejected, after its
\* findOne pre-check found nothing, is answered 400 "already subscribed".
C1_RaceAnsweredAsDuplicate ==
    \A r \in Requests :
        (IsSubscribe(r) /\ storeErr[r] = "E11000" /\ pc[r] = "done")
            => resp[r] = << SubscribeDuplicate400 >>

\* C2: in the handlers that persist, a send of a contact request is issued
\* only once its ContactMessage is saved; while the save is pending no send
\* is issued; a failed save leaves both sends unissued and is answered 500.
C2_SaveBeforeSends ==
    \A r \in Requests :
        (IsContact(r) /\ variant \in Persisting) =>
            /\ (\E i \in 1..2 : send[r][i] # "unissued")
                  => (ContactSaved(r) /\ DocCount(r) = 1)
            /\ pc[r] = "contactSave" => send[r] = <<"unissued", "unissued">>
            /\ storeErr[r] = "fault" =>
                  /\ send[r] = <<"unissued", "unissued">>
                  /\ DocCount(r) = 0
                  /\ Len(resp[r]) = 1
                  /\ Answer(r).status = 500 /\ ~Answer(r).success

\* C2 witness: one request whose save failed and was answered, another whose
\* sends are out after its save.
C2_Witness ==
    \E r1, r2 \in Requests :
        /\ IsContact(r1) /\ storeErr[r1] = "fault" /\ Responded(r1)
        /\ IsContact(r2) /\ ContactSaved(r2) /\ send[r2] = <<"flight", "flight">>

\* C3: in the handlers that persist, a contact request whose save succeeded
\* has both sends issued and exactly one document persisted, whatever the
\* sends do, and when a send failed the request is answered 500, success:false.
C3_FailedSendAnswered500 ==
    \A r \in Requests :
        (IsContact(r) /\ variant \in Persisting /\ ContactSaved(r)) =>
            /\ \A i \in 1..2 : send[r][i] # "unissued"
            /\ DocCount(r) = 1
            /\ (pc[r] = "done" /\ \E i \in 1..2 : SendFailed(send[r][i]))
                  => (Answer(r).status = 500 /\ ~Answer(r).success)

C5_Original ==
    \A r \in Requests :
        (IsContact(r) /\ variant \in Persisting /\ Responded(r))
            => \A i \in 1..2 : send[r][i] # "flight"

\* C5 amended: a success response comes only after both sends have
\* completed; a request answered while a send is in flight is answered 500,
\* because the other send has been rejected.
C5_SuccessAfterBothSends ==
    \A r \in Requests :
        (IsContact(r) /\ variant \in Persisting /\ Responded(r)) =>
            /\ Answer(r).success => \A i \in 1..2 : Fulfilled(send[r][i])
            /\ \A i \in 1..2 :
                  send[r][i] = "flight"
                      => (resp[r] = ContactCatch(variant) /\ send[r][3 - i] = "rejected")

\* C5 witness: answered 500 on the first rejection, the other send in flight.
C5_Witness ==
    \E r \in Requests :
        /\ IsContact(r) /\ variant \in Persisting /\ Responded(r)
        /\ Answer(r).status = 500
        /\ \E i \in 1..2 : send[r][i] = "flight" /\ send[r][3 - i] = "rejected"

\* The claim's words: one of name, email, subject, message missing or empty.
SomeFieldMissingOrEmpty(b) ==
    \E f \in ContactFields : f \notin DOMAIN b \/ Len(b[f]) = 0

\* C6: a contact submission with a missing or empty field is answered 400,
\* success:false; nothing is saved for it and none of its sends is issued.
C6_MissingFieldRejected ==
    \A r \in Requests :
        (IsContact(r) /\ SomeFieldMissingOrEmpty(body[r])) =>
            /\ resp[r] = << ContactMissing400 >>
            /\ Answer(r).status = 400 /\ ~Answer(r).success
            /\ calls[r] = {}
            /\ DocsOf(r) = {}
            /\ send[r] = <<"unissued", "unissued">>

\* C6 witness: a submission without its message was answered.
C6_Witness ==
    \E r \in Requests :
        /\ IsContact(r) /\ variant \in Persisting /\ Responded(r)
        /\ "message" \notin DOMAIN body[r]
        /\ \A f \in ContactFields \ {"message"} : ~Falsy(body[r], f)

\* C7 as stated: a subscribe request whose email was stored when it started
\* is answered with the duplicate error and inserts nothing.
C7_Original ==
    \A r \in Requests :
        (IsSubscribe(r) /\ presentAtStart[r] /\ pc[r] = "done") =>
            /\ resp[r] = << SubscribeDuplicate400 >>
            /\ "Subscriber.save" \notin calls[r]
            /\ CopiesIn(EmailOf(r), subscribers) = 1

\* C7 amended: such a request is rejected and inserts nothing: with the
\* duplicate error (400) when its uniqueness query is answered, with 500 when
\* the query itself fails.
C7_PresentEmailRejected ==
    \A r \in Requests :
        (IsSubscribe(r) /\ presentAtStart[r]) =>
            /\ "Subscriber.save" \notin calls[r]
            /\ CopiesIn(EmailOf(r), subscribers) = 1
            /\ pc[r] = "done" =>
                  \/ storeErr[r] = "none" /\ resp[r] = << SubscribeDuplicate400 >>
                  \/ storeErr[r] = "fault" /\ resp[r] = SubscribeCatch

\* C7 witness: a request for a stored email was answered as a duplicate.
C7_Witness ==
    \E r \in Requests :
        /\ IsSubscribe(r) /\ presentAtStart[r] /\ pc[r] = "done"
        /\ resp[r] = << SubscribeDuplicate400 >>

\* Every response sent so far is well formed, no request has two, a handler
\* that returned has answered, and a failure says success:false with a text.
OneWellFormedResponse ==
    \A r \in Requests :
        /\ Len(resp[r]) <= 1
        /\ pc[r] = "done" => Len(resp[r]) = 1
        /\ (Responded(r) /\ Answer(r).status # 200)
              => (~Answer(r).success /\ Answer(r).message # "")

\* Every request received has exactly one response.
AllAnswered == \A r \in Requests : kind[r] # "none" => Len(resp[r]) = 1

\* C8: every contact or subscribe request gets exactly one response, whatever
\* validation, the store and the sends do, and a failure response carries
\* success:false and a message.  A response is never taken back, so "each
\* request received is eventually answered" is: from some point on, every
\* request received is answered.
C8_AlwaysOneResponse == []OneWellFormedResponse /\ <>[]AllAnswered

\* C8 witness: a contact request answered 500 after a rejected send and a
\* subscribe request answered 500 after a store failure.
C8_Witness ==
    \E r1, r2 \in Requests :
        /\ IsContact(r1) /\ Responded(r1) /\ Answer(r1).status = 500
        /\ \E i \in 1..2 : send[r1][i] = "rejected"
        /\ IsSubscribe(r2) /\ Responded(r2) /\ Answer(r2).status = 500

AtSigns(s) == { k \in 1..Len(s) : s[k] = "@" }

\* The claim's words: localpart@domain.tld, with no white space, one "@",
\* and a "." inside the domain part.
AddressShape(s) ==
    /\ \A k \in 1..Len(s) : s[k] # " "
    /\ Cardinality(AtSigns(s)) = 1
    /\ \A at \in AtSigns(s) :
          /\ at > 1
          /\ \E k \in (at + 2)..(Len(s) - 1) : s[k] = "."

\* Length of the longest address tried against the pattern.
MaxEmailLen == 5

\* Every text of at most MaxEmailLen characters, each a letter, "@", "." or
\* a space.
Addresses == UNION { [1..n -> {"a", "@", ".", " "}] : n \in 0..MaxEmailLen }

\* The handler's test rejects every address that is not of the shape.
UnshapedAddressesInvalid ==
    \A s \in Addresses : ~AddressShape(s) => SubscribeEmailInvalid([email |-> s])

\* C9: a subscribe request whose email is missing or not of the address
\* shape is answered 400 "Email invalido" with no store call made; no
\* Subscriber with such an email exists; the handler's test fails for every
\* address that is not of the shape.
C9_InvalidEmailRejected ==
    /\ UnshapedAddressesInvalid
    /\ \A r \in Requests :
          (IsSubscribe(r) /\ ("email" \notin DOMAIN body[r] \/ ~AddressShape(EmailOf(r)))) =>
              /\ resp[r] = << SubscribeInvalid400 >>
              /\ calls[r] = {}
    /\ \A e \in BagToSet(subscribers) : AddressShape(e)

\* C9 witness: a request with an address without a dot after the "@" was
\* answered.
C9_Witness ==
    \E r \in Requests :
        /\ IsSubscribe(r) /\ Responded(r)
        /\ body[r] = [email |-> <<"a", "@", "b", "c">>]

\* C10: a contact request answered with success has its ContactMessage
\* persisted and both of its sends acknowledged.
C10_SuccessMeansSavedAndSent ==
    \A r \in Requests :
        (IsContact(r) /\ Responded(r) /\ Answer(r).success) =>
            /\ DocCount(r) = 1
            /\ send[r] = <<"ack", "ack">>

====
